---- MODULE Spec2Model ----
(***************************************************************************)
(* A model of TOOLS/ses3d_fields.py (class ses3d_fields): the setup        *)
(* reader, the coordinate builder, the Fortran-record field reader and the *)
(* depth-slice loop of plot_depth_slice.                                   *)
(*                                                                         *)
(* Numbers.  The program computes in Python 2: "/" on two ints is floor    *)
(* division (\div), on floats it is real division.  Real quantities are    *)
(* modelled in fixed point: radii in metres, angles in milliradians, GLL   *)
(* nodes in units of 1/GLLUnit; the domains drawn below make every block   *)
(* width an exact integer, and a product is divided last as the code does. *)
(* Field values (float32 on disk) are modelled by small integers.          *)
(*                                                                         *)
(* numpy arrays are modelled as numpy stores them: a shape and one stride  *)
(* per axis (in items) over a flat buffer.  Axis numbers are 0-based as in *)
(* the source; TLA+ sequences are 1-based, so axis a is entry a+1.         *)
(***************************************************************************)
EXTENDS Integers, Sequences, FiniteSets, TLC

VARIABLES
    cfg,      \* the numbers held by ../INPUT/setup
    disk,     \* what the field files of the directory hold (see FileOf)
    pc,       \* position of the program
    err,      \* the Python exception that ended the call, or "none"
    setup,    \* self.setup
    theta,    \* self.theta  (one row per processor box; <<>> = not assigned)
    phi,      \* self.phi
    z,        \* self.z
    req,      \* arguments of the running call
    p,        \* plot_depth_slice: loop variable p (-1 = not bound)
    idz,      \* plot_depth_slice: local idz (-1 = not bound)
    vmin,     \* plot_depth_slice: local vmin
    vmax,     \* plot_depth_slice: local vmax
    im,       \* plot_depth_slice: local im (last pcolormesh; <<>> = not bound)
    reads,    \* number of read_single_box calls made per box in this call
    slices,   \* per box, the 2-D slice handed to pcolormesh (<<>> = none)
    label,    \* the depth (km) written into the title (-1 = no title)
    field     \* read_single_box: local field (SpecRead follows it step by step)

vars == <<cfg, disk, pc, err, setup, theta, phi, z, req, p, idz, vmin, vmax,
          im, reads, slices, label, field>>

----------------------------------------------------------------------------
(* Bounds of the model and constants of the program.                       *)

MaxGlobal == 2          \* global element counts are drawn from 1..MaxGlobal
MaxProc == 2            \* processor counts are drawn from 1..MaxProc
MaxDepth == 7           \* requested depths (km) are drawn from -1..MaxDepth

GLLUnit == 10000        \* fixed-point unit of the GLL node table
EarthRadiusKm == 6371   \* radius = 1000.0 * (6371.0 - depth)
MetresPerKm == 1000
FrameWords == 1         \* read()[4:-4]: one 4-byte word stripped at each end
WordBytes == 4          \* dtype="float32"

----------------------------------------------------------------------------
(* Small helpers.                                                          *)

RECURSIVE Prod(_)
Prod(s) == IF s = <<>> THEN 1 ELSE Head(s) * Prod(Tail(s))

Range(s) == {s[i] : i \in DOMAIN s}

\* the least and the greatest entry of a non-empty sequence
SeqMin(s) == LET r == Range(s) IN CHOOSE x \in r : \A y \in r : x <= y
SeqMax(s) == LET r == Range(s) IN CHOOSE x \in r : \A y \in r : x >= y

Abs(x) == IF x < 0 THEN 0 - x ELSE x

----------------------------------------------------------------------------
(* read_setup.  The setup file is modelled by the numbers its lines hold;  *)
(* the angles are the values after the conversion to radians.              *)

\* Python 2 "/" on two ints.
IntDiv(a, b) == a \div b

ReadSetup(c) ==
    [ domain   |-> c.domain,
      elements |-> [ nx_global |-> c.nx_global,
                     ny_global |-> c.ny_global,
                     nz_global |-> c.nz_global,
                     nx |-> 1 + IntDiv(c.nx_global, c.px),
                     ny |-> 1 + IntDiv(c.ny_global, c.py),
                     nz |-> 1 + IntDiv(c.nz_global, c.pz) ],
      lpd      |-> c.lpd,
      procs    |-> [px |-> c.px, py |-> c.py, pz |-> c.pz] ]

NoSetup == [lpd |-> 0]

NProcs(s) == s.procs.px * s.procs.py * s.procs.pz

----------------------------------------------------------------------------
(* get_GLL: the node table, in units of 1/GLLUnit.  No branch of the       *)
(* if/elif chain binds "knots" for another degree, and "return knots" then *)
(* raises UnboundLocalError.                                               *)

GetGLL(lpd) ==
    CASE lpd = 2 -> [err |-> "none", knots |-> <<-10000, 0, 10000>>]
      [] lpd = 3 -> [err |-> "none", knots |-> <<-10000, -4472, 4472, 10000>>]
      [] lpd = 4 -> [err |-> "none", knots |-> <<-10000, -6547, 0, 6547, 10000>>]
      [] lpd = 5 -> [err |-> "none",
                     knots |-> <<-10000, -7651, -2852, 2852, 7651, 10000>>]
      [] lpd = 6 -> [err |-> "none",
                     knots |-> <<-10000, -8302, -4688, 0, 4688, 8302, 10000>>]
      [] lpd = 7 -> [err |-> "none",
                     knots |-> <<-10000, -8717, -5917, -2093, 2093, 5917, 8717,
                                 10000>>]
      [] OTHER   -> [err |-> "UnboundLocalError", knots |-> <<>>]

----------------------------------------------------------------------------
(* make_coordinates.                                                       *)

\* np.arange(start, stop, step) for step > 0: ceil((stop - start)/step) values.
Arange(start, stop, step) ==
    LET n == IF stop <= start THEN 0 ELSE ((stop - start) + step - 1) \div step
    IN  [i \in 1..n |-> start + (i - 1) * step]

\* KnotLine with element e offset by e instead of 2*e.
KnotLineOffsetByOne(g, n) ==
    LET L == Len(g)
    IN  [i \in 1..(n * L) |->
            g[((i - 1) % L) + 1] + GLLUnit + GLLUnit * ((i - 1) \div L)]

\* knot = get_GLL() + 1.0, then get_GLL() + 1 + 2*(e+1) appended for every
\* e in arange(n - 1): element e (0-based) holds get_GLL() + 1 + 2*e.
KnotLine(g, n) ==
    LET L == Len(g)
    IN  [i \in 1..(n * L) |->
            g[((i - 1) % L) + 1] + GLLUnit + 2 * GLLUnit * ((i - 1) \div L)]

\* knot * width / np.max(knot)
ScaleKnots(knot, width) ==
    LET m == SeqMax(knot) IN [i \in DOMAIN knot |-> (knot[i] * width) \div m]

\* z[p, ::-1] = row : z[p, len-1-i] = row[i]
Reversed(row) == [i \in DOMAIN row |-> row[Len(row) + 1 - i]]

\* The box index p counts up in the loop nest iz (outer), iy, ix (inner).
BoxIx(s, b) == b % s.procs.px
BoxIy(s, b) == (b \div s.procs.px) % s.procs.py
BoxIz(s, b) == b \div (s.procs.px * s.procs.py)

\* ZRow with the origin of the first block for every block.
ZRowFirstBlock(bz, kz, iz) == Reversed([i \in DOMAIN kz |-> bz[1] + kz[i]])

\* self.z[p, ::-1] = boundaries_z[iz] + knot_z
ZRow(bz, kz, iz) == Reversed([i \in DOMAIN kz |-> bz[iz + 1] + kz[i]])

MakeCoordinates(s) ==
    LET d  == s.domain
        n  == NProcs(s)
        width_theta == (d.theta_max - d.theta_min) \div s.procs.px
        width_phi   == (d.phi_max - d.phi_min) \div s.procs.py
        width_z     == (d.z_max - d.z_min) \div s.procs.pz
        bt == Arange(d.theta_min, d.theta_max + width_theta, width_theta)
        bp == Arange(d.phi_min, d.phi_max + width_phi, width_phi)
        bz == Arange(d.z_min, d.z_max + width_z, width_z)
        gll == GetGLL(s.lpd)
        kx == ScaleKnots(KnotLine(gll.knots, s.elements.nx), width_theta)
        ky == ScaleKnots(KnotLine(gll.knots, s.elements.ny), width_phi)
        kz == ScaleKnots(KnotLine(gll.knots, s.elements.nz), width_z)
    IN  IF gll.err # "none"
        THEN [err |-> gll.err, theta |-> <<>>, phi |-> <<>>, z |-> <<>>]
        ELSE [err   |-> "none",
              theta |-> [b \in 1..n |->
                           [i \in DOMAIN kx |-> bt[BoxIx(s, b - 1) + 1] + kx[i]]],
              phi   |-> [b \in 1..n |->
                           [i \in DOMAIN ky |-> bp[BoxIy(s, b - 1) + 1] + ky[i]]],
              z     |-> [b \in 1..n |-> ZRow(bz, kz, BoxIz(s, b - 1))]]

----------------------------------------------------------------------------
(* The field files.  The variable disk describes what the files hold; the  *)
(* file of box b is FileLen words long and FileWord gives its words.       *)

\* shape = (nx, ny, nz, lpd+1, lpd+1, lpd+1)
Shape(s) == <<s.elements.nx, s.elements.ny, s.elements.nz,
              s.lpd + 1, s.lpd + 1, s.lpd + 1>>

\* The value a file holds as its k-th float (0-based).
Payload(d, b, k) ==
    IF d.pattern = 0 THEN k + b ELSE ((k * k) + 3 * b + (k \div 5)) % 11

\* The number of floats of a file: d.extra more (or less) than the shape has.
FileFloats(d, s) == Prod(Shape(s)) + d.extra

\* The length of a file in 4-byte words: record marker, floats, record marker.
FileLen(d, s) == FileFloats(d, s) + 2

\* The i-th word (1-based) of the file of box b.
FileWord(d, s, b, i) ==
    IF i = 1 \/ i = FileLen(d, s) THEN WordBytes * FileFloats(d, s)
    ELSE Payload(d, b, i - 2)

\* open_file.read()[4:-4]: its length in words, and its k-th word (0-based).
StrippedLen(n) == IF n > 2 * FrameWords THEN n - 2 * FrameWords ELSE 0
StrippedWord(d, s, b, k) == FileWord(d, s, b, k + 1 + FrameWords)

----------------------------------------------------------------------------
(* numpy arrays: [err, shape, strides, copy, of].  An array made over the  *)
(* bytes of a file, and every transposed view of it, addresses the words   *)
(* of read()[4:-4] by its strides (copy = FALSE).  reshape(order="C") of a *)
(* transposed view copies: item k of the new buffer is the k-th item of    *)
(* the view "of" in C order (copy = TRUE).                                 *)

\* Strides (in items) of a Fortran-ordered array: the first axis runs fastest.
RECURSIVE StridesFFrom(_, _, _)
StridesFFrom(shape, a, acc) ==
    IF a > Len(shape) THEN acc
    ELSE StridesFFrom(shape, a + 1,
                      Append(acc, IF a = 1 THEN 1 ELSE acc[a - 1] * shape[a - 1]))
StridesF(shape) == StridesFFrom(shape, 1, <<>>)

\* Strides of a C-ordered array: the last axis runs fastest.
RECURSIVE StridesCFrom(_, _, _)
StridesCFrom(shape, a, acc) ==
    IF a < 1 THEN acc
    ELSE StridesCFrom(shape, a - 1,
                      <<IF a = Len(shape) THEN 1 ELSE acc[1] * shape[a + 1]>> \o acc)
StridesC(shape) == StridesCFrom(shape, Len(shape), <<>>)

RECURSIVE DotTo(_, _, _)
DotTo(u, v, n) == IF n = 0 THEN 0 ELSE u[n] * v[n] + DotTo(u, v, n - 1)
Dot(u, v) == DotTo(u, v, Len(v))

\* the 0-based index tuple of the k-th item (0-based) in C order over shape,
\* sc being StridesC(shape)
UnravelC(k, shape, sc) == [a \in DOMAIN shape |-> (k \div sc[a]) % shape[a]]

NoView == [shape |-> <<>>, strides |-> <<>>]

ArrayError(e) ==
    [err |-> e, shape |-> <<>>, strides |-> <<>>, copy |-> FALSE, of |-> NoView]

\* np.ndarray(shape, buffer=..., dtype="float32", order="F") over a buffer of
\* n words: TypeError ("buffer is too small for requested array") when the
\* buffer holds fewer items than the shape asks for; items beyond them are
\* ignored.
NdArrayF(shape, n) ==
    IF n < Prod(shape)
    THEN ArrayError("TypeError")
    ELSE [err |-> "none", shape |-> shape, strides |-> StridesF(shape),
          copy |-> FALSE, of |-> NoView]

RemoveAt(s, i) == SubSeq(s, 1, i - 1) \o SubSeq(s, i + 1, Len(s))
InsertAt(s, i, x) == SubSeq(s, 1, i - 1) \o <<x>> \o SubSeq(s, i, Len(s))

\* <<s[axes[1]], s[axes[2]], ...>> for 0-based axis numbers
RECURSIVE Pick(_, _)
Pick(s, axes) ==
    IF axes = <<>> THEN <<>> ELSE <<s[axes[1] + 1]>> \o Pick(s, Tail(axes))

\* a.transpose(axes), axes a sequence of 0-based axis numbers
Transpose(a, axes) ==
    [a EXCEPT !.shape = Pick(a.shape, axes), !.strides = Pick(a.strides, axes)]

\* np.rollaxis(a, axis, start) for 0 <= axis < a.ndim <= 8
Rollaxis(a, axis, start) ==
    LET n     == Len(a.shape)
        st    == IF axis < start THEN start - 1 ELSE start
        all   == SubSeq(<<0, 1, 2, 3, 4, 5, 6, 7>>, 1, n)
        axes  == InsertAt(RemoveAt(all, axis + 1), st + 1, axis)
    IN  IF ~(0 <= start /\ start < n + 1) THEN ArrayError("ValueError")
        ELSE IF axis = st THEN a
        ELSE Transpose(a, axes)

\* a.reshape(new_shape, order="C") of a view a of the file's words
ReshapeC(a, new_shape) ==
    [err |-> "none", shape |-> new_shape, strides |-> StridesC(new_shape),
     copy |-> TRUE, of |-> [shape |-> a.shape, strides |-> a.strides]]

\* The word of read()[4:-4] (0-based) that a[idx] holds, idx a 0-based index.
WordOf(a, idx) ==
    IF a.copy
    THEN Dot(UnravelC(Dot(idx, a.strides), a.of.shape, StridesC(a.of.shape)),
             a.of.strides)
    ELSE Dot(idx, a.strides)

\* a[idx] for an array a read from the file of box b
At(a, idx, d, s, b) == StrippedWord(d, s, b, WordOf(a, idx))

----------------------------------------------------------------------------
(* read_single_box (a component of pure_components).                       *)

\* new_shape = [_i * _j for _i, _j in zip(shape[:3], shape[3:])]
NewShape(shape) ==
    <<shape[1] * shape[4], shape[2] * shape[5], shape[3] * shape[6]>>

\* field = np.rollaxis(np.rollaxis(field, 3, 1), 3, self.setup["lpd"] + 1)
RollAxes(a, lpd) == Rollaxis(Rollaxis(a, 3, 1), 3, lpd + 1)

\* The array read_single_box returns for a file of n words, or the error it
\* raises.
ReadSingleBox(s, n) ==
    LET f0 == NdArrayF(Shape(s), StrippedLen(n))
        f1 == RollAxes(f0, s.lpd)
    IN  IF f0.err # "none" THEN f0
        ELSE IF f1.err # "none" THEN f1
        ELSE ReshapeC(f1, NewShape(Shape(s)))

----------------------------------------------------------------------------
(* plot_depth_slice: the pieces of the loop body.                          *)

\* float("inf"), float("-inf") and finite values, with Python's order.
PosInf == [inf |-> 1, v |-> 0]
NegInf == [inf |-> -1, v |-> 0]
Fin(x) == [inf |-> 0, v |-> x]
Less(a, b) == \/ a.inf < b.inf
              \/ a.inf = 0 /\ b.inf = 0 /\ a.v < b.v

\* min(a, b) that keeps the new value whatever the running one is.
PyMinOverwrites(a, b) == b

\* Python's max(a, b) and min(a, b)
PyMax(a, b) == IF Less(a, b) THEN b ELSE a
PyMin(a, b) == IF Less(b, a) THEN b ELSE a

\* radius = 1000.0 * (6371.0 - depth)
Radius(depth) == MetresPerKm * (EarthRadiusKm - depth)

\* InRange with the two comparisons strict.
InRangeStrict(row, radius) == radius > SeqMin(row) /\ radius < SeqMax(row)

\* (radius >= self.z[p,:].min()) & (radius <= self.z[p,:].max())
InRange(row, radius) == radius >= SeqMin(row) /\ radius <= SeqMax(row)

\* min(np.where(min(np.abs(row - radius)) == np.abs(row - radius))[0])
IdzOf(row, radius) ==
    LET d == [i \in DOMAIN row |-> Abs(row[i] - radius)]
        m == SeqMin(d)
    IN  (CHOOSE i \in DOMAIN row : d[i] = m /\ \A j \in 1..(i - 1) : d[j] # m) - 1

\* field[:, :, k], row after row, of the array f read from the file of box b
Slice2D(f, k, d, s, b) ==
    [i \in 1..(f.shape[1] * f.shape[2]) |->
        At(f, <<(i - 1) \div f.shape[2], (i - 1) % f.shape[2], k>>, d, s, b)]

\* int(self.z[p, idz] / 1000.0)
TitleKm(zz, b, k) == zz[b + 1][k + 1] \div MetresPerKm

NoLocals ==
    /\ p = -1 /\ idz = -1 /\ vmin = PosInf /\ vmax = NegInf /\ im = <<>>
    /\ reads = <<>> /\ slices = <<>> /\ label = -1 /\ req = <<>>

----------------------------------------------------------------------------
(* Inputs.                                                                 *)

\* One axis of the discretisation: <<global element count, processor count>>.
AxisChoices == {<<g, q>> : g \in 1..MaxGlobal, q \in 1..MaxProc}

\* Angles in milliradians, radii in metres; every extent is a multiple of
\* 60, so each block width is exact for the processor counts drawn.
Domains == {[theta_min |-> 600, theta_max |-> 1200, phi_min |-> 0,
             phi_max |-> 600, z_min |-> 6365000, z_max |-> 6371000],
            [theta_min |-> 0, theta_max |-> 1800, phi_min |-> -600,
             phi_max |-> 600, z_min |-> 6359000, z_max |-> 6371000]}

Config(d, l, x, y, zc) ==
    [domain |-> d, lpd |-> l,
     nx_global |-> x[1], ny_global |-> y[1], nz_global |-> zc[1],
     px |-> x[2], py |-> y[2], pz |-> zc[2]]

\* Degrees written in the setup file: the table's 2..7 and one on each side.
Degrees == 1..8
TableDegrees == 2..7

AllConfigs ==
    {Config(d, l, x, y, zc) : d \in Domains, l \in Degrees,
                               x \in AxisChoices, y \in AxisChoices,
                               zc \in AxisChoices}

\* Configurations of the objects whose fields are read: along x and y one
\* element in one box, or one element over two boxes.
SliceAxis == {<<1, 1>>, <<1, 2>>}
SliceConfigs ==
    {Config(d, l, x, y, zc) : d \in Domains, l \in TableDegrees,
                               x \in SliceAxis, y \in SliceAxis,
                               zc \in AxisChoices}

\* Field files: of the right length, one float short, one float long.
Disks == {[pattern |-> 0, extra |-> 0], [pattern |-> 1, extra |-> 0],
          [pattern |-> 0, extra |-> -1], [pattern |-> 1, extra |-> 1]}

Depths == -1..MaxDepth
Displays == {<<0, 5>>, <<2, 3>>}

----------------------------------------------------------------------------
(* __init__: read_setup, then make_coordinates.                            *)

InitNew ==
    /\ cfg \in AllConfigs
    /\ disk = [pattern |-> 0, extra |-> 0]
    /\ pc = "new" /\ err = "none"
    /\ setup = NoSetup
    /\ theta = <<>> /\ phi = <<>> /\ z = <<>>
    /\ field = <<>>
    /\ NoLocals

DoReadSetup ==
    /\ pc = "new"
    /\ setup' = ReadSetup(cfg)
    /\ pc' = "setup_read"
    /\ UNCHANGED <<cfg, disk, err, theta, phi, z, req, p, idz, vmin, vmax, im,
                   reads, slices, label, field>>

DoMakeCoordinates ==
    /\ pc = "setup_read"
    /\ LET c == MakeCoordinates(setup)
       IN  /\ err' = c.err
           /\ theta' = c.theta /\ phi' = c.phi /\ z' = c.z
           /\ pc' = IF c.err = "none" THEN "ready" ELSE "raised"
    /\ UNCHANGED <<cfg, disk, setup, req, p, idz, vmin, vmax, im, reads,
                   slices, label, field>>

NextNew == DoReadSetup \/ DoMakeCoordinates

SpecNew == InitNew /\ [][NextNew]_vars

----------------------------------------------------------------------------
(* The constructed object.                                                 *)

Constructed(c) ==
    /\ cfg = c
    /\ setup = ReadSetup(c)
    /\ LET g == MakeCoordinates(ReadSetup(c))
       IN  theta = g.theta /\ phi = g.phi /\ z = g.z
    /\ err = "none"

----------------------------------------------------------------------------
(* read_single_box(component, proc_number), step by step.                  *)

InitRead ==
    /\ \E c \in SliceConfigs : Constructed(c)
    /\ disk \in Disks
    /\ pc = "rsb_open"
    /\ field = <<>>
    /\ p = -1 /\ idz = -1 /\ vmin = PosInf /\ vmax = NegInf /\ im = <<>>
    /\ reads = <<>> /\ slices = <<>> /\ label = -1
    /\ req \in {[proc_number |-> b] : b \in {0, NProcs(setup) - 1}}

RsbOpen ==
    /\ pc = "rsb_open"
    /\ LET f == NdArrayF(Shape(setup), StrippedLen(FileLen(disk, setup)))
       IN  /\ field' = f
           /\ err' = f.err
           /\ pc' = IF f.err = "none" THEN "rsb_roll" ELSE "raised"
    /\ UNCHANGED <<cfg, disk, setup, theta, phi, z, req, p, idz, vmin, vmax,
                   im, reads, slices, label>>

RsbRoll ==
    /\ pc = "rsb_roll"
    /\ LET f == RollAxes(field, setup.lpd)
       IN  /\ field' = f
           /\ err' = f.err
           /\ pc' = IF f.err = "none" THEN "rsb_reshape" ELSE "raised"
    /\ UNCHANGED <<cfg, disk, setup, theta, phi, z, req, p, idz, vmin, vmax,
                   im, reads, slices, label>>

RsbReshape ==
    /\ pc = "rsb_reshape"
    /\ field' = ReshapeC(field, NewShape(Shape(setup)))
    /\ pc' = "rsb_returned"
    /\ UNCHANGED <<cfg, disk, err, setup, theta, phi, z, req, p, idz, vmin,
                   vmax, im, reads, slices, label>>

NextRead == RsbOpen \/ RsbRoll \/ RsbReshape

SpecRead == InitRead /\ [][NextRead]_vars

----------------------------------------------------------------------------
(* plot_depth_slice(component, depth, valmin, valmax) on a constructed     *)
(* object, one step per pass of the loop over the processor boxes.         *)

Init ==
    /\ \E c \in SliceConfigs : Constructed(c)
    /\ disk \in Disks
    /\ pc = "ready"
    /\ field = <<>>
    /\ NoLocals

\* Lines 293-297: the initialisations.
PlotStart ==
    /\ pc = "ready"
    /\ \E d \in Depths, v \in Displays :
          req' = [depth |-> d, radius |-> Radius(d), valmin |-> v[1],
                  valmax |-> v[2]]
    /\ vmax' = NegInf
    /\ vmin' = PosInf
    /\ reads' = [b \in 1..NProcs(setup) |-> 0]
    /\ slices' = [b \in 1..NProcs(setup) |-> <<>>]
    /\ pc' = "loop"
    /\ UNCHANGED <<cfg, disk, err, setup, theta, phi, z, p, idz, im, label,
                   field>>

\* A pass of "for p in range(n_procs)" whose box fails the test of line 325.
LoopSkip ==
    /\ pc = "loop"
    /\ p + 1 < NProcs(setup)
    /\ ~InRange(z[p + 2], req.radius)
    /\ p' = p + 1
    /\ UNCHANGED <<cfg, disk, pc, err, setup, theta, phi, z, req, idz, vmin,
                   vmax, im, reads, slices, label, field>>

\* A pass whose box passes the test: lines 328-350.
LoopRead ==
    /\ pc = "loop"
    /\ p + 1 < NProcs(setup)
    /\ InRange(z[p + 2], req.radius)
    /\ LET b == p + 1
           f == ReadSingleBox(setup, FileLen(disk, setup))
           k == IdzOf(z[b + 1], req.radius)
       IN  /\ f.err = "none"
           /\ p' = b
           /\ reads' = [reads EXCEPT ![b + 1] = @ + 1]
           /\ idz' = k
           /\ slices' = [slices EXCEPT ![b + 1] = Slice2D(f, k, disk, setup, b)]
           /\ vmax' = PyMax(vmax, Fin(SeqMax(slices'[b + 1])))
           /\ vmin' = PyMin(vmin, Fin(SeqMin(slices'[b + 1])))
           /\ im' = [box |-> b, idz |-> k, vmin |-> req.valmin,
                     vmax |-> req.valmax]
    /\ UNCHANGED <<cfg, disk, pc, err, setup, theta, phi, z, req, label,
                   field>>

\* A pass whose read_single_box raises: the exception ends the call.
LoopReadRaises ==
    /\ pc = "loop"
    /\ p + 1 < NProcs(setup)
    /\ InRange(z[p + 2], req.radius)
    /\ LET b == p + 1
           f == ReadSingleBox(setup, FileLen(disk, setup))
       IN  /\ f.err # "none"
           /\ p' = b
           /\ reads' = [reads EXCEPT ![b + 1] = @ + 1]
           /\ err' = f.err
           /\ pc' = "raised"
    /\ UNCHANGED <<cfg, disk, setup, theta, phi, z, req, idz, vmin, vmax, im,
                   slices, label, field>>

\* Lines 353-357 after a loop that bound im: the colour bar and the title.
PlotTitle ==
    /\ pc = "loop"
    /\ p + 1 = NProcs(setup)
    /\ im # <<>>
    /\ label' = TitleKm(z, p, idz)
    /\ pc' = "titled"
    /\ UNCHANGED <<cfg, disk, err, setup, theta, phi, z, req, p, idz, vmin,
                   vmax, im, reads, slices, field>>

\* Line 353 after a loop that never bound im.
PlotNoImage ==
    /\ pc = "loop"
    /\ p + 1 = NProcs(setup)
    /\ im = <<>>
    /\ err' = "UnboundLocalError"
    /\ pc' = "raised"
    /\ UNCHANGED <<cfg, disk, setup, theta, phi, z, req, p, idz, vmin, vmax,
                   im, reads, slices, label, field>>

\* The call is over (returned or raised); its locals are gone.
PlotOver ==
    /\ pc \in {"titled", "raised"}
    /\ pc' = "ready"
    /\ err' = "none"
    /\ field' = <<>>
    /\ p' = -1 /\ idz' = -1 /\ vmin' = PosInf /\ vmax' = NegInf /\ im' = <<>>
    /\ reads' = <<>> /\ slices' = <<>> /\ label' = -1 /\ req' = <<>>
    /\ UNCHANGED <<cfg, disk, setup, theta, phi, z>>

Next ==
    \/ PlotStart
    \/ LoopSkip
    \/ LoopRead
    \/ LoopReadRaises
    \/ PlotTitle
    \/ PlotNoImage
    \/ PlotOver

Spec == Init /\ [][Next]_vars


----------------------------------------------------------------------------
(* Claims about read_single_box (SpecRead).                                *)

Ended == pc \in {"rsb_returned", "raised"}

\* the position of index idx in column-major order over shape
ColMajor(idx, shape) == Dot(idx, StridesF(shape))

\* The returned cube holds node (i,j,k) of element (ix,iy,iz) at
\* [ix*(lpd+1)+i, iy*(lpd+1)+j, iz*(lpd+1)+k].
PhysicalOrder(f, s, d, b) ==
    LET L == s.lpd + 1
        e == s.elements
    IN  \A ix \in 0..(e.nx - 1), iy \in 0..(e.ny - 1), iz \in 0..(e.nz - 1),
           i \in 0..(L - 1), j \in 0..(L - 1), k \in 0..(L - 1) :
           At(f, <<ix * L + i, iy * L + j, iz * L + k>>, d, s, b)
             = Payload(d, b, ColMajor(<<ix, iy, iz, i, j, k>>, Shape(s)))

\* C1: for every degree 2..7 and all element counts, read_single_box of a
\* well-framed file returns a cube of shape (nx*(lpd+1), ny*(lpd+1),
\* nz*(lpd+1)) in physical node order.
C1_PhysicalCube ==
    (Ended /\ disk.extra = 0) =>
        /\ pc = "rsb_returned"
        /\ field.shape = NewShape(Shape(setup))
        /\ PhysicalOrder(field, setup, disk, req.proc_number)

\* C4: a file whose stripped length differs from 4*nx*ny*nz*(lpd+1)^3 bytes
\* ends the read with FormatError and never yields a cube.
C4_WrongLengthRejected ==
    (Ended /\ WordBytes * StrippedLen(FileLen(disk, setup))
                # WordBytes * Prod(Shape(setup))) =>
        (pc = "raised" /\ err = "FormatError")

----------------------------------------------------------------------------
(* Claims about plot_depth_slice (Spec).                                   *)

Boxes == 0..(NProcs(setup) - 1)
InCall == pc \in {"loop", "titled", "raised"}

\* The z-range of box b, and whether the requested radius lies in it.
Lo(b) == SeqMin(z[b + 1])
Hi(b) == SeqMax(z[b + 1])
Covers(b) == Lo(b) <= req.radius /\ req.radius <= Hi(b)

\* C2: the depth label is the z-coordinate (km) of a box that was matched,
\* taken at the radial index selected for that box.
C2_LabelOfMatchedBox ==
    pc = "titled" =>
        \E b \in Boxes :
            /\ Covers(b)
            /\ label = z[b + 1][IdzOf(z[b + 1], req.radius) + 1] \div MetresPerKm

\* C3: a radius outside the z-range of every box ends the call with
\* NoDataError: no slice is returned and no other error is raised.
C3_NoDataReported ==
    (pc \in {"titled", "raised"} /\ \A b \in Boxes : ~Covers(b)) =>
        (pc = "raised" /\ err = "NoDataError")

\* C8: of the boxes the loop has dealt with, exactly those with
\* min z[p] <= radius <= max z[p] were read, once each, and exactly those
\* contribute a slice (a box whose read raised ends the call without one);
\* no other box is read.
C8_ReadIffInRange ==
    InCall =>
        \A b \in Boxes :
            LET dealt  == b <= p
                raised == pc = "raised" /\ b = p
            IN  /\ reads[b + 1] = IF dealt /\ Covers(b) THEN 1 ELSE 0
                /\ (slices[b + 1] # <<>>) <=> (dealt /\ Covers(b) /\ ~raised)

\* A call that ended with the radius on the boundary shared by two layers of
\* boxes, both of which contributed.
C8_Witness ==
    /\ pc = "titled"
    /\ \E b \in Boxes, c \in Boxes :
          /\ BoxIz(setup, b) + 1 = BoxIz(setup, c)
          /\ req.radius = Lo(c) /\ req.radius = Hi(b)
          /\ slices[b + 1] # <<>> /\ slices[c + 1] # <<>>

\* The slice of box b at the radial index nearest the radius, from the file.
SliceOf(b) ==
    Slice2D(ReadSingleBox(setup, FileLen(disk, setup)),
            IdzOf(z[b + 1], req.radius), disk, setup, b)

LeastOf(S) == CHOOSE x \in S : \A y \in S : x <= y
GreatestOf(S) == CHOOSE x \in S : \A y \in S : x >= y

\* C9: after the loop, vmin and vmax are the least and the greatest value
\* over the slices of all boxes whose z-range holds the radius, each slice
\* taken at that box's selected radial index.
C9_GlobalMinMax ==
    pc = "titled" =>
        LET hits == {b \in Boxes : Covers(b)}
            vals == UNION {Range(SliceOf(b)) : b \in hits}
        IN  /\ \A b \in hits : slices[b + 1] = SliceOf(b)
            /\ vmin = Fin(LeastOf(vals))
            /\ vmax = Fin(GreatestOf(vals))

\* A call that ended with slices of several boxes, the least value not in
\* the last of them, and display bounds that differ from the result.
C9_Witness ==
    /\ pc = "titled"
    /\ Cardinality({b \in Boxes : slices[b + 1] # <<>>}) > 1
    /\ vmin # Fin(SeqMin(slices[p + 1]))
    /\ vmin # Fin(req.valmin) /\ vmax # Fin(req.valmax)

----------------------------------------------------------------------------
(* Claims about __init__ (SpecNew).                                        *)

Divisible ==
    /\ cfg.nx_global % cfg.px = 0
    /\ cfg.ny_global % cfg.py = 0
    /\ cfg.nz_global % cfg.pz = 0

Least2(a, b) == IF a < b THEN a ELSE b
Greatest2(a, b) == IF a > b THEN a ELSE b

\* the z-ranges of all boxes together reach from z_min to z_max
CoversDomain ==
    /\ LeastOf({Lo(b) : b \in Boxes}) = cfg.domain.z_min
    /\ GreatestOf({Hi(b) : b \in Boxes}) = cfg.domain.z_max

\* C5 as claimed: the z-ranges of every two distinct boxes share at most a
\* boundary value, and together they cover [z_min, z_max].
C5_PairwiseDisjoint ==
    (pc = "ready" /\ Divisible) =>
        /\ \A b \in Boxes, c \in Boxes :
              b # c => Greatest2(Lo(b), Lo(c)) >= Least2(Hi(b), Hi(c))
        /\ CoversDomain

\* C5 as amended: boxes of different radial processor index iz have z-ranges
\* that share at most a boundary value, boxes of the same iz have the same
\* z-range, the range of each layer ends where the next begins, and
\* together they cover [z_min, z_max].
C5_LayersTile ==
    (pc = "ready" /\ Divisible) =>
        /\ \A b \in Boxes, c \in Boxes :
              LET lb == b \div (cfg.px * cfg.py)
                  lc == c \div (cfg.px * cfg.py)
              IN  /\ lb = lc => (Lo(b) = Lo(c) /\ Hi(b) = Hi(c))
                  /\ lb < lc => Hi(b) <= Lo(c)
                  /\ lb + 1 = lc => Hi(b) = Lo(c)
        /\ CoversDomain

C5_Witness ==
    /\ pc = "ready" /\ Divisible
    /\ cfg.pz > 1 /\ cfg.px * cfg.py > 1
    /\ Lo(0) = Lo(1) /\ Hi(0) < Hi(NProcs(setup) - 1)

\* C6: a global element count that its processor count does not divide is
\* flagged with InvalidConfigurationError, and no local count is computed.
C6_NonDivisibleFlagged ==
    (pc # "new" /\ ~Divisible) =>
        (err = "InvalidConfigurationError" /\ setup = NoSetup)

\* C7: a degree outside 2..7 ends the construction with
\* UnsupportedDegreeError, and theta, phi and z are never assigned.
C7_UnsupportedDegreeError ==
    (pc \in {"ready", "raised"} /\ cfg.lpd \notin TableDegrees) =>
        /\ pc = "raised" /\ err = "UnsupportedDegreeError"
        /\ theta = <<>> /\ phi = <<>> /\ z = <<>>

\* The knot lines of the three axes, before they are scaled.
KnotLines ==
    LET g == GetGLL(setup.lpd).knots
    IN  {KnotLine(g, setup.elements.nx), KnotLine(g, setup.elements.ny),
         KnotLine(g, setup.elements.nz)}

\* k rises strictly within each run of L entries and repeats the last entry
\* of a run as the first entry of the next.
RisesWithinElements(k, L) ==
    \A i \in 1..(Len(k) - 1) :
        IF i % L = 0 THEN k[i] = k[i + 1] ELSE k[i] < k[i + 1]

\* C10 as claimed: every knot line is strictly increasing, across element
\* interfaces too.
C10_StrictlyIncreasing ==
    pc = "ready" =>
        \A k \in KnotLines : \A i \in 1..(Len(k) - 1) : k[i] < k[i + 1]

\* C10 as amended: every knot line is non-decreasing: strictly increasing
\* within an element, and the last node of an element equals the first node
\* of the next; the coordinate rows built from the knot lines are ordered
\* the same way (z from its last entry to its first).
C10_IncreasingWithinElements ==
    pc = "ready" =>
        /\ \A k \in KnotLines : RisesWithinElements(k, setup.lpd + 1)
        /\ \A b \in Boxes :
              /\ RisesWithinElements(theta[b + 1], setup.lpd + 1)
              /\ RisesWithinElements(phi[b + 1], setup.lpd + 1)
              /\ RisesWithinElements(Reversed(z[b + 1]), setup.lpd + 1)

C10_Witness ==
    /\ pc = "ready"
    /\ setup.elements.nz > 1
    /\ Len(z[1]) = setup.elements.nz * (setup.lpd + 1)

====
